---- MODULE Spec2Model ----
(***************************************************************************)
(* Model of archimate_analyzer.py: the ArchiMateAnalyzer class, its parse  *)
(* of a model document into the element store, relationship store and      *)
(* directed graph, and analyze_model with the analyses it calls.           *)
(*                                                                         *)
(* Python values are represented as follows.                               *)
(*   str        a sequence of one-character strings, so that lower() and   *)
(*              the substring test `in` are computed character by          *)
(*              character; identifiers used only as dictionary keys or     *)
(*              node names (element ids, relationship ids, property keys,  *)
(*              layer names, suggestion texts) are TLA+ strings            *)
(*   None       the value None below, which is no character sequence       *)
(*   dict       a record [keys, val]: the keys in insertion order and the  *)
(*              value stored under each key                                *)
(*   DiGraph    a record [nodes, edge]: the node set and the edge          *)
(*              attribute `type` of each ordered pair that is an edge      *)
(*   float      the complexity score is kept in thousandths before         *)
(*              round(score, 2) and in hundredths after it                 *)
(***************************************************************************)
EXTENDS Integers, Sequences, FiniteSets, TLC

VARIABLES
    elements,        \* self.elements: dict id -> ArchiMateElement
    relationships,   \* self.relationships: dict id -> {source, target, type}
    graph,           \* self.graph
    call,            \* the last method called on the analyzer
    raised,          \* the exception the last call raised, or "none"
    analysis,        \* <<the report the last call returned>>, or <<>>
    model,           \* the document given to the last parse_archimate_model
    parses,          \* the number of parse_archimate_model calls so far
    parse_failed,    \* whether some parse_archimate_model call has raised
    analyses         \* analyze_model calls since the last parse

vars == <<elements, relationships, graph, call, raised, analysis, model,
          parses, parse_failed, analyses>>

-----------------------------------------------------------------------------
(* Python values                                                           *)

None == <<"None">>

UpperCase == <<"A","B","C","D","E","F","G","H","I","J","K","L","M","N","O","P","Q","R","S","T","U","V","W","X","Y","Z">>

LowerCase == <<"a","b","c","d","e","f","g","h","i","j","k","l","m","n","o","p","q","r","s","t","u","v","w","x","y","z">>

\* str.lower() on one character
ToLower ==
    [c \in {UpperCase[i] : i \in 1..Len(UpperCase)} |->
        LowerCase[CHOOSE i \in 1..Len(UpperCase) : UpperCase[i] = c]]

lower_char(c) == IF c \in DOMAIN ToLower THEN ToLower[c] ELSE c

\* str.lower()
lower(s) == [i \in 1..Len(s) |-> lower_char(s[i])]

\* the Python test `sub in s` on two strings
contains(sub, s) ==
    \E i \in 0..(Len(s) - Len(sub)) : \A j \in 1..Len(sub) : s[i + j] = sub[j]

\* the text an f-string puts for a value: str(None) is "None"
format(x) == IF x = None THEN <<"N","o","n","e">> ELSE x

\* dict: {} , d[k] = v (a new key goes last, an old key keeps its place), k in d
EmptyDict == [keys |-> <<>>, val |-> <<>>]

has_key(d, k) == \E i \in 1..Len(d.keys) : d.keys[i] = k

dict_set(d, k, v) ==
    [keys |-> IF has_key(d, k) THEN d.keys ELSE Append(d.keys, k),
     val  |-> [x \in {d.keys[i] : i \in 1..Len(d.keys)} \cup {k} |->
                   IF x = k THEN v ELSE d.val[x]]]

\* nx.DiGraph(): add_node, add_edge (which adds both end nodes), neighbors
EmptyGraph == [nodes |-> {}, edge |-> <<>>]

add_node(g, n) == [g EXCEPT !.nodes = @ \cup {n}]

add_edge(g, u, v, t) ==
    [nodes |-> g.nodes \cup {u, v},
     edge  |-> [p \in DOMAIN g.edge \cup {<<u, v>>} |->
                   IF p = <<u, v>> THEN t ELSE g.edge[p]]]

\* DiGraph.neighbors(n) is DiGraph.successors(n)
neighbors(g, n) == {v \in g.nodes : <<n, v>> \in DOMAIN g.edge}

-----------------------------------------------------------------------------
(* The tables set by __init__                                              *)

layers ==
    << [layer |-> "business",
        types |-> << <<"b","u","s","i","n","e","s","s","-","a","c","t","o","r">>, <<"b","u","s","i","n","e","s","s","-","r","o","l","e">>,
                     <<"b","u","s","i","n","e","s","s","-","p","r","o","c","e","s","s">>, <<"b","u","s","i","n","e","s","s","-","f","u","n","c","t","i","o","n">> >>],
       [layer |-> "application",
        types |-> << <<"a","p","p","l","i","c","a","t","i","o","n","-","c","o","m","p","o","n","e","n","t">>, <<"a","p","p","l","i","c","a","t","i","o","n","-","s","e","r","v","i","c","e">>,
                     <<"a","p","p","l","i","c","a","t","i","o","n","-","i","n","t","e","r","f","a","c","e">> >>],
       [layer |-> "technology",
        types |-> << <<"n","o","d","e">>, <<"d","e","v","i","c","e">>, <<"s","y","s","t","e","m","-","s","o","f","t","w","a","r","e">>,
                     <<"t","e","c","h","n","o","l","o","g","y","-","s","e","r","v","i","c","e">> >>] >>

element_risks ==
    ( <<"b","u","s","i","n","e","s","s","-","p","r","o","c","e","s","s">> :>
        << <<"P","r","o","c","e","s","s"," ","e","f","f","i","c","i","e","n","c","y">>, <<"B","u","s","i","n","e","s","s"," ","c","o","n","t","i","n","u","i","t","y">>,
           <<"C","o","m","p","l","i","a","n","c","e"," ","r","e","q","u","i","r","e","m","e","n","t","s">>, <<"R","e","s","o","u","r","c","e"," ","a","l","l","o","c","a","t","i","o","n">> >> ) @@
    ( <<"a","p","p","l","i","c","a","t","i","o","n","-","c","o","m","p","o","n","e","n","t">> :>
        << <<"T","e","c","h","n","i","c","a","l"," ","d","e","b","t">>, <<"S","c","a","l","a","b","i","l","i","t","y"," ","l","i","m","i","t","a","t","i","o","n","s">>,
           <<"I","n","t","e","g","r","a","t","i","o","n"," ","c","o","m","p","l","e","x","i","t","y">>, <<"M","a","i","n","t","e","n","a","n","c","e"," ","o","v","e","r","h","e","a","d">> >> ) @@
    ( <<"t","e","c","h","n","o","l","o","g","y","-","s","e","r","v","i","c","e">> :>
        << <<"S","e","r","v","i","c","e"," ","a","v","a","i","l","a","b","i","l","i","t","y">>, <<"P","e","r","f","o","r","m","a","n","c","e"," ","b","o","t","t","l","e","n","e","c","k","s">>,
           <<"S","e","c","u","r","i","t","y"," ","v","u","l","n","e","r","a","b","i","l","i","t","i","e","s">>, <<"I","n","f","r","a","s","t","r","u","c","t","u","r","e"," ","d","e","p","e","n","d","e","n","c","i","e","s">> >> )

relationship_risks ==
    ( <<"s","e","r","v","i","n","g">> :>
        << <<"S","e","r","v","i","c","e"," ","l","e","v","e","l"," ","a","g","r","e","e","m","e","n","t","s">>, <<"D","e","p","e","n","d","e","n","c","y"," ","m","a","n","a","g","e","m","e","n","t">>,
           <<"I","n","t","e","r","f","a","c","e"," ","s","t","a","b","i","l","i","t","y">> >> ) @@
    ( <<"r","e","a","l","i","z","a","t","i","o","n">> :>
        << <<"I","m","p","l","e","m","e","n","t","a","t","i","o","n"," ","c","o","m","p","l","e","x","i","t","y">>, <<"R","e","s","o","u","r","c","e"," ","r","e","q","u","i","r","e","m","e","n","t","s">>,
           <<"T","e","c","h","n","i","c","a","l"," ","f","e","a","s","i","b","i","l","i","t","y">> >> ) @@
    ( <<"a","s","s","i","g","n","m","e","n","t">> :>
        << <<"R","e","s","o","u","r","c","e"," ","a","l","l","o","c","a","t","i","o","n">>, <<"R","e","s","p","o","n","s","i","b","i","l","i","t","y"," ","c","l","a","r","i","t","y">>,
           <<"S","k","i","l","l"," ","r","e","q","u","i","r","e","m","e","n","t","s">> >> )

-----------------------------------------------------------------------------
(* _determine_layer                                                        *)

\* element_type.lower() raises AttributeError when element_type is None
determine_layer_raises(element_type) == element_type = None

RECURSIVE determine_layer_from(_, _)
determine_layer_from(lowered, i) ==
    IF i > Len(layers) THEN "unknown"
    ELSE IF \E j \in 1..Len(layers[i].types) :
                contains(layers[i].types[j], lowered)
         THEN layers[i].layer
         ELSE determine_layer_from(lowered, i + 1)

determine_layer(element_type) ==
    determine_layer_from(lower(element_type), 1)

-----------------------------------------------------------------------------
(* parse_archimate_model                                                   *)

\* element.properties[prop.get('key')] = prop.get('value') for each property
RECURSIVE parse_properties(_, _, _)
parse_properties(d, props, i) ==
    IF i > Len(props) THEN d
    ELSE parse_properties(dict_set(d, props[i][1], props[i][2]), props, i + 1)

\* One pass of the loop over the element records, on the analyzer st:
\* _determine_layer may raise before anything of the record is stored.
parse_element(st, elem) ==
    IF determine_layer_raises(elem.type)
    THEN [st EXCEPT !.raised = "AttributeError"]
    ELSE LET element == [id            |-> elem.id,
                         name          |-> elem.name,
                         type          |-> elem.type,
                         layer         |-> determine_layer(elem.type),
                         relationships |-> <<>>,
                         properties    |->
                             parse_properties(EmptyDict, elem.properties, 1)]
         IN  [st EXCEPT !.elements = dict_set(@, element.id, element),
                        !.graph    = add_node(@, element.id)]

\* The loop over the element records; it ends at the first record that raises.
RECURSIVE parse_elements(_, _, _)
parse_elements(st, elems, i) ==
    IF i > Len(elems) \/ st.raised # "none" THEN st
    ELSE parse_elements(parse_element(st, elems[i]), elems, i + 1)

\* self.elements[id].relationships.append(rel_id)
append_relationship(els, id, rel_id) ==
    [els EXCEPT !.val[id].relationships = Append(@, rel_id)]

\* One pass of the loop over the relationship records: the relationship is
\* stored and the edge added before the two endpoint lookups, each of which
\* raises KeyError for an id that is not in self.elements.
parse_relationship(st, rel) ==
    LET stored == dict_set(st.relationships, rel.id,
                           [source |-> rel.source, target |-> rel.target,
                            type |-> rel.type])
        linked == add_edge(st.graph, rel.source, rel.target, rel.type)
    IN  IF ~has_key(st.elements, rel.source)
        THEN [st EXCEPT !.relationships = stored, !.graph = linked,
                        !.raised = "KeyError"]
        ELSE IF ~has_key(st.elements, rel.target)
        THEN [st EXCEPT !.relationships = stored, !.graph = linked,
                        !.elements = append_relationship(@, rel.source, rel.id),
                        !.raised = "KeyError"]
        ELSE [st EXCEPT !.relationships = stored, !.graph = linked,
                        !.elements = append_relationship(
                                         append_relationship(@, rel.source, rel.id),
                                         rel.target, rel.id)]

\* The loop over the relationship records; it ends at the first that raises.
RECURSIVE parse_relationships(_, _, _)
parse_relationships(st, rels, i) ==
    IF i > Len(rels) \/ st.raised # "none" THEN st
    ELSE parse_relationships(parse_relationship(st, rels[i]), rels, i + 1)

\* The exception of an earlier call is gone when the call starts; the
\* relationships are parsed when the elements raised nothing.
parse_archimate_model(st, doc) ==
    LET parsed == parse_elements([st EXCEPT !.raised = "none"], doc.elements, 1)
    IN  IF parsed.raised # "none" THEN parsed
        ELSE parse_relationships(parsed, doc.relationships, 1)

\* ArchiMateAnalyzer()
NewAnalyzer ==
    [elements |-> EmptyDict, relationships |-> EmptyDict, graph |-> EmptyGraph,
     raised |-> "none"]

-----------------------------------------------------------------------------
(* The analyses analyze_model calls.  els, rels and g are self.elements,   *)
(* self.relationships and self.graph.                                      *)

\* \E over a Python list: any(keyword in text for keyword in keywords)
any_in(keywords, text) ==
    \E k \in 1..Len(keywords) : contains(keywords[k], text)

get_layer_level(layer) ==
    CASE layer = "business"    -> 0
      [] layer = "application" -> 1
      [] layer = "technology"  -> 2
      [] OTHER                 -> -1

abs(x) == IF x < 0 THEN -x ELSE x

\* The value _check_layer_alignment returns when every neighbor is stored.
check_layer_alignment(els, g, element) ==
    ~ \E neighbor_id \in neighbors(g, element.id) :
          abs(get_layer_level(element.layer)
              - get_layer_level(els.val[neighbor_id].layer)) > 1

\* round(score, 2): thousandths to hundredths, a tie going to the even digit
round2(thousandths) ==
    LET q == thousandths \div 10
        r == thousandths % 10
    IN  IF r > 5 \/ (r = 5 /\ q % 2 = 1) THEN q + 1 ELSE q

cross_layer_count(els, g, element) ==
    Cardinality({n \in neighbors(g, element.id) :
                     els.val[n].layer # element.layer})

\* The score in hundredths.
calculate_complexity_score(els, g, element) ==
    round2(Len(element.relationships) * 1500
           + cross_layer_count(els, g, element) * 2000
           + Len(element.properties.keys) * 500)

\* The threshold of the connectivity check
CouplingThreshold == 5

element_risk_list(els, g, element) ==
    (IF element.type \in DOMAIN element_risks
     THEN element_risks[element.type] ELSE <<>>)
    \o (IF Cardinality(neighbors(g, element.id)) > CouplingThreshold
        THEN << <<"H","i","g","h"," ","c","o","u","p","l","i","n","g",":"," ">> \o format(element.name)
                \o <<" ","h","a","s"," ","m","a","n","y"," ","d","e","p","e","n","d","e","n","c","i","e","s">> >>
        ELSE <<>>)
    \o (IF ~check_layer_alignment(els, g, element)
        THEN << <<"L","a","y","e","r"," ","m","i","s","a","l","i","g","n","m","e","n","t",":"," ">> \o format(element.name)
                \o <<" ","h","a","s"," ","c","r","o","s","s","-","l","a","y","e","r"," ","d","e","p","e","n","d","e","n","c","i","e","s">> >>
        ELSE <<>>)

\* self.elements[neighbor_id] in _check_layer_alignment and self.elements[n]
\* in _calculate_complexity_score raise KeyError for a neighbor that is not
\* stored; the score reads every neighbor, so the element's analysis raises
\* exactly when it has such a neighbor.
analyze_elements_raises(els, g) ==
    \E i \in 1..Len(els.keys) :
        \E n \in neighbors(g, els.keys[i]) : ~has_key(els, n)

analyze_elements(els, g) ==
    [i \in 1..Len(els.keys) |->
        LET element == els.val[els.keys[i]]
        IN  [id               |-> els.keys[i],
             name             |-> element.name,
             type             |-> element.type,
             layer            |-> element.layer,
             risks            |-> element_risk_list(els, g, element),
             complexity_score |-> calculate_complexity_score(els, g, element)]]

\* nx.shortest_path(G, source, target) by breadth-first search: the number of
\* nodes on a shortest path, or NetworkXNoPath when the search ends without
\* reaching the target.
RECURSIVE shortest_path_search(_, _, _, _, _)
shortest_path_search(g, frontier, seen, target, len) ==
    LET next == (UNION {neighbors(g, n) : n \in frontier}) \ seen
    IN  IF target \in next THEN [raised |-> "none", len |-> len + 1]
        ELSE IF next = {} THEN [raised |-> "NetworkXNoPath", len |-> 0]
        ELSE shortest_path_search(g, next, seen \cup next, target, len + 1)

shortest_path(g, source, target) ==
    IF source = target THEN [raised |-> "none", len |-> 1]
    ELSE shortest_path_search(g, {source}, {source}, target, 1)

\* has_circular_dependency with the search run from the source to the target
has_circular_dependency_forward(g, source, target) ==
    LET path == shortest_path(g, source, target)
    IN  IF path.raised = "NetworkXNoPath" THEN FALSE ELSE path.len > 0

has_circular_dependency(g, source, target) ==
    LET path == shortest_path(g, target, source)
    IN  IF path.raised = "NetworkXNoPath" THEN FALSE ELSE path.len > 0

relationship_risk_list(els, g, rel) ==
    (IF rel.type \in DOMAIN relationship_risks
     THEN relationship_risks[rel.type] ELSE <<>>)
    \o (IF has_circular_dependency(g, rel.source, rel.target)
        THEN << <<"C","i","r","c","u","l","a","r"," ","d","e","p","e","n","d","e","n","c","y"," ","d","e","t","e","c","t","e","d"," ","b","e","t","w","e","e","n"," ">>
                \o format(els.val[rel.source].name) \o <<" ","a","n","d"," ">>
                \o format(els.val[rel.target].name) >>
        ELSE <<>>)

\* self.elements[rel['source']] and self.elements[rel['target']] raise
\* KeyError for an endpoint that is not stored.
analyze_relationships_raises(els, rels) ==
    \E i \in 1..Len(rels.keys) :
        LET rel == rels.val[rels.keys[i]]
        IN  ~has_key(els, rel.source) \/ ~has_key(els, rel.target)

analyze_relationships(els, rels, g) ==
    [i \in 1..Len(rels.keys) |->
        LET rel == rels.val[rels.keys[i]]
        IN  [id     |-> rels.keys[i],
             source |-> els.val[rel.source].name,
             target |-> els.val[rel.target].name,
             type   |-> rel.type,
             risks  |-> relationship_risk_list(els, g, rel)]]

\* The keys of layer_analysis
NamedLayers == {"business", "application", "technology"}

\* First loop of _analyze_layers: elements per layer.
RECURSIVE count_elements(_, _, _)
count_elements(layer_analysis, els, i) ==
    IF i > Len(els.keys) THEN layer_analysis
    ELSE LET layer == els.val[els.keys[i]].layer
         IN  count_elements(
                 IF layer \in DOMAIN layer_analysis
                 THEN [layer_analysis EXCEPT ![layer].elements = @ + 1]
                 ELSE layer_analysis,
                 els, i + 1)

\* count_dependencies with the target layer's counter left alone
RECURSIVE count_dependencies_source_only(_, _, _, _)
count_dependencies_source_only(layer_analysis, els, rels, i) ==
    IF i > Len(rels.keys) THEN layer_analysis
    ELSE LET rel          == rels.val[rels.keys[i]]
             source_layer == els.val[rel.source].layer
             target_layer == els.val[rel.target].layer
         IN  count_dependencies_source_only(
                 IF source_layer # target_layer
                 THEN [layer_analysis EXCEPT ![source_layer].dependencies = @ + 1]
                 ELSE layer_analysis,
                 els, rels, i + 1)

\* Second loop of _analyze_layers: both layers of a cross-layer relationship.
RECURSIVE count_dependencies(_, _, _, _)
count_dependencies(layer_analysis, els, rels, i) ==
    IF i > Len(rels.keys) THEN layer_analysis
    ELSE LET rel          == rels.val[rels.keys[i]]
             source_layer == els.val[rel.source].layer
             target_layer == els.val[rel.target].layer
         IN  count_dependencies(
                 IF source_layer # target_layer
                 THEN [layer_analysis EXCEPT
                          ![source_layer].dependencies = @ + 1,
                          ![target_layer].dependencies = @ + 1]
                 ELSE layer_analysis,
                 els, rels, i + 1)

\* layer_analysis[source_layer] and layer_analysis[target_layer] raise
\* KeyError for a layer that is not one of its keys.
analyze_layers_raises(els, rels) ==
    \E i \in 1..Len(rels.keys) :
        LET rel          == rels.val[rels.keys[i]]
            source_layer == els.val[rel.source].layer
            target_layer == els.val[rel.target].layer
        IN  /\ source_layer # target_layer
            /\ (source_layer \notin NamedLayers \/ target_layer \notin NamedLayers)

analyze_layers(els, rels) ==
    count_dependencies(
        count_elements([l \in NamedLayers |-> [elements |-> 0, dependencies |-> 0]],
                       els, 1),
        els, rels, 1)

\* The branch of the if/elif chain of _generate_recommendations a risk takes.
risk_category(risk) ==
    LET text == lower(risk)
    IN  IF any_in(<< <<"l","a","y","e","r">>, <<"d","e","p","e","n","d","e","n","c","y">>, <<"c","o","u","p","l","i","n","g">> >>, text)
        THEN "architecture"
        ELSE IF any_in(<< <<"i","n","t","e","r","f","a","c","e">>, <<"c","o","n","n","e","c","t","i","o","n">>, <<"r","e","l","a","t","i","o","n","s","h","i","p">> >>, text)
        THEN "integration"
        ELSE IF any_in(<< <<"s","e","c","u","r","i","t","y">>, <<"v","u","l","n","e","r","a","b","i","l","i","t","y">>, <<"a","c","c","e","s","s">> >>, text)
        THEN "security"
        ELSE IF any_in(<< <<"p","e","r","f","o","r","m","a","n","c","e">>, <<"s","c","a","l","a","b","i","l","i","t","y">>, <<"e","f","f","i","c","i","e","n","c","y">> >>, text)
        THEN "performance"
        ELSE "none"

\* The loop of _generate_recommendations that groups the risks by category.
RECURSIVE risk_categories(_, _, _)
risk_categories(grouped, risks, i) ==
    IF i > Len(risks) THEN grouped
    ELSE LET category == risk_category(risks[i])
         IN  risk_categories(
                 IF category = "none" THEN grouped
                 ELSE [grouped EXCEPT ![category] = Append(@, risks[i])],
                 risks, i + 1)

generate_recommendations(risks) ==
    LET grouped ==
            risk_categories([architecture |-> <<>>, integration |-> <<>>,
                             security |-> <<>>, performance |-> <<>>], risks, 1)
    IN  (IF grouped.architecture # <<>>
         THEN << [category    |-> "Architecture",
                  risks       |-> grouped.architecture,
                  suggestions |-> << "Review and simplify layer interactions",
                                     "Reduce coupling between components",
                                     "Consider microservices architecture",
                                     "Implement clear separation of concerns" >>] >>
         ELSE <<>>)
        \o (IF grouped.integration # <<>>
            THEN << [category    |-> "Integration",
                     risks       |-> grouped.integration,
                     suggestions |-> << "Standardize interfaces",
                                        "Implement API gateway",
                                        "Use event-driven architecture",
                                        "Define clear service contracts" >>] >>
            ELSE <<>>)

\* all_risks.extend(...) with the lists put in front instead of appended
RECURSIVE extend_risks_in_front(_, _, _)
extend_risks_in_front(all_risks, records, i) ==
    IF i > Len(records) THEN all_risks
    ELSE extend_risks_in_front(records[i].risks \o all_risks, records, i + 1)

\* all_risks.extend(...) over a list of records
RECURSIVE extend_risks(_, _, _)
extend_risks(all_risks, records, i) ==
    IF i > Len(records) THEN all_risks
    ELSE extend_risks(all_risks \o records[i].risks, records, i + 1)

\* analyze_model: the exception it raises, and the report it returns when it
\* raises none.  The three analyses run in the order of the dict literal.
analyze_model_raises(els, rels, g) ==
    IF analyze_elements_raises(els, g) THEN "KeyError"
    ELSE IF analyze_relationships_raises(els, rels) THEN "KeyError"
    ELSE IF analyze_layers_raises(els, rels) THEN "KeyError"
    ELSE "none"

analyze_model(els, rels, g) ==
    LET element_analysis      == analyze_elements(els, g)
        relationship_analysis == analyze_relationships(els, rels, g)
        all_risks ==
            extend_risks(extend_risks(<<>>, element_analysis, 1),
                         relationship_analysis, 1)
    IN  [elements        |-> element_analysis,
         relationships   |-> relationship_analysis,
         layers          |-> analyze_layers(els, rels),
         risks           |-> all_risks,
         recommendations |-> generate_recommendations(all_risks)]

-----------------------------------------------------------------------------
(* The documents given to the parser                                       *)

NoDocument == [elements |-> <<>>, relationships |-> <<>>]

ElementRecord(id, name, type, props) ==
    [id |-> id, name |-> name, type |-> type, properties |-> props]

RelationshipRecord(id, source, target, type) ==
    [id |-> id, source |-> source, target |-> target, type |-> type]

\* The element records the documents are made of: one per case of the type
\* tag (registered in a layer, mixed case, matching two layers' markers,
\* matching none, empty, absent), with zero to two property records, one of
\* them repeating a key.
Pay  == ElementRecord("b1", <<"P","a","y">>, <<"b","u","s","i","n","e","s","s","-","p","r","o","c","e","s","s">>, <<>>)
Host == ElementRecord("t1", <<"H","o","s","t">>, <<"t","e","c","h","n","o","l","o","g","y","-","s","e","r","v","i","c","e">>,
                      << <<"owner", <<"o","p","s">>>> >>)
App  == ElementRecord("a1", <<"A","p","p">>, <<"a","p","p","l","i","c","a","t","i","o","n","-","c","o","m","p","o","n","e","n","t">>,
                      << <<"owner", <<"d","e","v">>>>, <<"tier", <<"2">>>> >>)
Grp  == ElementRecord("u1", None, <<"g","r","o","u","p","i","n","g">>,
                      << <<"owner", <<"d","e","v">>>>, <<"owner", <<"o","p","s">>>> >>)
Desk == ElementRecord("b2", <<"D","e","s","k">>, <<"B","u","s","i","n","e","s","s","-","R","o","l","e">>, <<>>)
Bare == ElementRecord("n1", <<"B","a","r","e">>, None, <<>>)
Void == ElementRecord("e1", <<"V","o","i","d">>, <<>>, <<>>)
Edge == ElementRecord("d1", <<"E","d","g","e">>, <<"d","e","v","i","c","e","-","a","p","p","l","i","c","a","t","i","o","n","-","s","e","r","v","i","c","e">>, <<>>)

Catalog == <<Pay, App, Host, Grp>>

RelationshipIds == <<"r1", "r2", "r3", "r4", "r5">>

\* The type tag of the k-th relationship record of a document: registered
\* kinds, an unregistered kind and an absent tag.
RelationshipTypes ==
    << <<"s","e","r","v","i","n","g">>, <<"f","l","o","w">>, <<"a","s","s","i","g","n","m","e","n","t">>, None, <<"r","e","a","l","i","z","a","t","i","o","n">> >>

\* The sequences of k numbers of 1..m that never decrease (strict: that
\* always increase).
RECURSIVE Ascending(_, _, _)
Ascending(k, m, strict) ==
    IF k = 0 THEN {<<>>}
    ELSE UNION {{Append(q, v) :
                    v \in (IF q = <<>> THEN 1
                           ELSE q[Len(q)] + (IF strict THEN 1 ELSE 0))..m} :
                q \in Ascending(k - 1, m, strict)}

\* The sub-lists of at most n records of a list, in the list's order.
Sublists(list, n) ==
    {[i \in 1..Len(p) |-> list[p[i]]] :
        p \in UNION {Ascending(k, Len(list), TRUE) : k \in 0..n}}

\* A list of relationship records between the listed ids, the k-th with the
\* k-th id and type tag and with the pick[k]-th pair of ids as its endpoints.
RelationshipList(ids, pick) ==
    [k \in 1..Len(pick) |->
        RelationshipRecord(RelationshipIds[k],
                           ids[((pick[k] - 1) \div Len(ids)) + 1],
                           ids[((pick[k] - 1) % Len(ids)) + 1],
                           RelationshipTypes[k])]

\* The picks of at most n pairs of the listed ids: a pair may repeat, and
\* lists that differ only in the order of their pairs are given once.
RelationshipPicks(ids, n) ==
    UNION {Ascending(k, Len(ids) * Len(ids), FALSE) : k \in 0..n}

IdsOf(elems) == [i \in 1..Len(elems) |-> elems[i].id]

MaxElements == 3
MaxRelationships == 3

\* Documents whose relationships all join elements of the document: the
\* element lists, and the document of an element list and a pick of pairs.
GraphElementLists == Sublists(Catalog, MaxElements)

GraphDocument(es, pick) ==
    [elements |-> es, relationships |-> RelationshipList(IdsOf(es), pick)]

MaxFan == 7

LeafIds == <<"l1", "l2", "l3", "l4", "l5", "l6", "l7", "l8">>

\* The leaves are in the hub's layer and in another layer in turn.
Leaf(k) ==
    ElementRecord(LeafIds[k], <<"L">>,
                  IF k % 2 = 1 THEN <<"a","p","p","l","i","c","a","t","i","o","n","-","i","n","t","e","r","f","a","c","e">> ELSE <<"d","e","v","i","c","e">>,
                  <<>>)

\* Documents with a hub element, in relationships from the first `ins` leaves
\* to the hub and out relationships from the hub to the next `outs` leaves.
FanModel(ins, outs) ==
    [elements |->
        <<ElementRecord("h1", <<"H","u","b">>, <<"a","p","p","l","i","c","a","t","i","o","n","-","s","e","r","v","i","c","e">>, <<>>)>>
        \o [k \in 1..(ins + outs) |-> Leaf(k)],
     relationships |->
        [k \in 1..(ins + outs) |->
            IF k <= ins
            THEN RelationshipRecord(LeafIds[k], LeafIds[k], "h1", <<"f","l","o","w">>)
            ELSE RelationshipRecord(LeafIds[k], "h1", LeafIds[k], <<"f","l","o","w">>)]]

\* One-element documents, one per case of the type tag.
TagModels ==
    {[elements |-> <<e>>, relationships |-> <<>>] :
        e \in {Pay, Host, App, Grp, Desk, Bare, Void, Edge}}

MaxDocElements == 2
MaxDocRelationships == 1

\* Small documents for repeated parsing: their relationships may name the
\* id "zz", which no element record has, and an element may lack its type tag.
DocumentElementLists == Sublists(<<Pay, Host, Grp, Bare>>, MaxDocElements)

Document(es, pick) ==
    [elements |-> es,
     relationships |-> RelationshipList(IdsOf(es) \o <<"zz">>, pick)]

-----------------------------------------------------------------------------
(* The state machine: one analyzer, its methods called in any order        *)

Init ==
    /\ elements = NewAnalyzer.elements
    /\ relationships = NewAnalyzer.relationships
    /\ graph = NewAnalyzer.graph
    /\ call = "init"
    /\ raised = "none"
    /\ analysis = <<>>
    /\ model = NoDocument
    /\ parses = 0
    /\ parse_failed = FALSE
    /\ analyses = 0

Analyzer == [elements |-> elements, relationships |-> relationships,
             graph |-> graph, raised |-> "none"]

\* analyzer.parse_archimate_model(path), the file at path holding doc
ParseArchimateModel(doc) ==
    \E st \in {parse_archimate_model(Analyzer, doc)} :
        /\ elements' = st.elements
        /\ relationships' = st.relationships
        /\ graph' = st.graph
        /\ call' = "parse"
        /\ raised' = st.raised
        /\ analysis' = <<>>
        /\ model' = doc
        /\ parses' = parses + 1
        /\ parse_failed' = (parse_failed \/ st.raised # "none")
        /\ analyses' = 0

MaxAnalyses == 2

\* analyzer.analyze_model(), called up to MaxAnalyses times on what a parse left
AnalyzeModel ==
    /\ analyses < MaxAnalyses
    /\ analyses' = analyses + 1
    /\ call' = "analyze"
    /\ raised' = analyze_model_raises(elements, relationships, graph)
    /\ analysis' = IF raised' = "none"
                   THEN <<analyze_model(elements, relationships, graph)>>
                   ELSE <<>>
    /\ UNCHANGED <<elements, relationships, graph, model, parses, parse_failed>>

MaxParses == 2

\* Up to MaxParses parses of small documents on one analyzer.
ParseDocument ==
    /\ parses < MaxParses
    /\ \E es \in DocumentElementLists :
           \E pick \in RelationshipPicks(IdsOf(es) \o <<"zz">>, MaxDocRelationships) :
               ParseArchimateModel(Document(es, pick))

Next == ParseDocument \/ AnalyzeModel

Spec == Init /\ [][Next]_vars

\* How the scripts of the repository use the analyzer: one parse of one
\* document on a new analyzer.
ParseGraphModel ==
    /\ parses = 0
    /\ \E es \in GraphElementLists :
           \E pick \in RelationshipPicks(IdsOf(es), MaxRelationships) :
               ParseArchimateModel(GraphDocument(es, pick))

ParseFanModel ==
    /\ parses = 0
    /\ \E ins \in 0..MaxFan :
           \E outs \in 0..(MaxFan - ins) :
               ParseArchimateModel(FanModel(ins, outs))

ParseTagModel ==
    /\ parses = 0
    /\ \E doc \in TagModels : ParseArchimateModel(doc)

NextOnce == ParseGraphModel \/ ParseFanModel \/ ParseTagModel \/ AnalyzeModel

SpecOnce == Init /\ [][NextOnce]_vars

-----------------------------------------------------------------------------
(* Vocabulary of the properties                                            *)

Report == analysis[1]

Returned == call = "analyze" /\ analysis # <<>>

StoredIds == {elements.keys[i] : i \in 1..Len(elements.keys)}

StoredRelationshipIds == {relationships.keys[i] : i \in 1..Len(relationships.keys)}

Edges == DOMAIN graph.edge

Successors(id) == {n \in graph.nodes : <<id, n>> \in Edges}

Predecessors(id) == {n \in graph.nodes : <<n, id>> \in Edges}

AllNeighbors(id) == Successors(id) \cup Predecessors(id)

StartsWith(text, prefix) ==
    Len(text) >= Len(prefix) /\ SubSeq(text, 1, Len(prefix)) = prefix

\* How many risks of a record start with the prefix.
RiskCount(record, prefix) ==
    Cardinality({i \in 1..Len(record.risks) : StartsWith(record.risks[i], prefix)})

LevelGap(a, b) ==
    abs(get_layer_level(elements.val[a].layer)
        - get_layer_level(elements.val[b].layer))

-----------------------------------------------------------------------------
(* C1 *)

\* C1: in the report, an element's record carries the "High coupling" risk
\* if and only if the element has more than 5 neighbors in the graph,
\* predecessors and successors together.
C1_HighCouplingIffManyNeighbors ==
    Returned =>
        \A i \in 1..Len(Report.elements) :
            LET record == Report.elements[i]
            IN  RiskCount(record, <<"H","i","g","h"," ","c","o","u","p","l","i","n","g">>) > 0
                    <=> Cardinality(AllNeighbors(record.id)) > 5

\* What the code does: the risk goes with more than 5 successors.
HighCouplingIffManySuccessors ==
    Returned =>
        \A i \in 1..Len(Report.elements) :
            LET record == Report.elements[i]
            IN  RiskCount(record, <<"H","i","g","h"," ","c","o","u","p","l","i","n","g">>) > 0
                    <=> Cardinality(Successors(record.id)) > 5

-----------------------------------------------------------------------------
(* C2 *)

\* C2: in the report, an element's record carries the "Layer misalignment"
\* risk exactly once if some neighbor of the element, successor or
\* predecessor, is more than one layer level away from it, and not at all
\* otherwise; so both ends of a business-to-technology relationship carry it.
C2_MisalignedIffDistantNeighbor ==
    Returned =>
        \A i \in 1..Len(Report.elements) :
            LET record == Report.elements[i]
            IN  RiskCount(record, <<"L","a","y","e","r"," ","m","i","s","a","l","i","g","n","m","e","n","t">>) =
                    IF \E n \in AllNeighbors(record.id) : LevelGap(record.id, n) > 1
                    THEN 1 ELSE 0

\* What the code does: only the successors are compared.
MisalignedIffDistantSuccessor ==
    Returned =>
        \A i \in 1..Len(Report.elements) :
            LET record == Report.elements[i]
            IN  RiskCount(record, <<"L","a","y","e","r"," ","m","i","s","a","l","i","g","n","m","e","n","t">>) =
                    IF \E n \in Successors(record.id) : LevelGap(record.id, n) > 1
                    THEN 1 ELSE 0

-----------------------------------------------------------------------------
(* C3 *)

CategoryTitle ==
    [architecture |-> "Architecture", integration |-> "Integration",
     security |-> "Security", performance |-> "Performance"]

HasRecommendation(category) ==
    \E k \in 1..Len(Report.recommendations) :
        Report.recommendations[k].category = CategoryTitle[category]

\* C3: the recommendations of a report hold an entry for a category if and
\* only if some risk of the report falls in that category, a risk falling in
\* the first of architecture, integration, security, performance that has a
\* keyword in it; so a risk with only a security keyword gives a security
\* entry and one with only a performance keyword a performance entry.
C3_EntryIffCategoryMatched ==
    Returned =>
        \A category \in DOMAIN CategoryTitle :
            HasRecommendation(category)
                <=> \E i \in 1..Len(Report.risks) :
                        risk_category(Report.risks[i]) = category

\* What the code does: entries are made for architecture and integration only.
EntryIffArchitectureOrIntegration ==
    Returned =>
        \A category \in DOMAIN CategoryTitle :
            HasRecommendation(category)
                <=> /\ category \in {"architecture", "integration"}
                    /\ \E i \in 1..Len(Report.risks) :
                           risk_category(Report.risks[i]) = category

-----------------------------------------------------------------------------
(* C4 *)

\* A relationship both of whose endpoints are stored elements.
Sound(rel) == rel.source \in StoredIds /\ rel.target \in StoredIds

\* C4: whatever a parse met, every stored relationship has both endpoints in
\* the element store, every graph node is a stored element, every graph edge
\* joins two stored elements, and the relationships list of an element names
\* no relationship with a missing endpoint.
C4_NoPartialUpdate ==
    /\ \A r \in StoredRelationshipIds : Sound(relationships.val[r])
    /\ graph.nodes \subseteq StoredIds
    /\ \A e \in Edges : e[1] \in StoredIds /\ e[2] \in StoredIds
    /\ \A id \in StoredIds :
           \A k \in 1..Len(elements.val[id].relationships) :
               LET r == elements.val[id].relationships[k]
               IN  r \in StoredRelationshipIds => Sound(relationships.val[r])

-----------------------------------------------------------------------------
(* C5 *)

Fresh == parse_archimate_model(NewAnalyzer, model)

\* C5: after any number of parses, none of which raised, the analyzer holds
\* the elements, relationships, nodes and edges of the last document alone,
\* and a report is the report a new analyzer gives for that document.
C5_ParseReplaces ==
    (parses > 0 /\ ~parse_failed) =>
        /\ elements = Fresh.elements
        /\ relationships = Fresh.relationships
        /\ graph = Fresh.graph
        /\ Returned =>
               Report = analyze_model(Fresh.elements, Fresh.relationships,
                                      Fresh.graph)

-----------------------------------------------------------------------------
(* C6 *)

\* C6: after a parse that did not raise, analyze_model does not raise and
\* returns a report whose layers are business, application and technology.
C6_AnalysisTotal ==
    (call = "analyze" /\ parses > 0 /\ ~parse_failed) =>
        /\ raised = "none"
        /\ analysis # <<>>
        /\ DOMAIN Report.layers = {"business", "application", "technology"}

-----------------------------------------------------------------------------
(* C7 *)

\* The edges the relationship records of the parsed document stand for.
DocumentEdges ==
    {<<model.relationships[k].source, model.relationships[k].target>> :
        k \in 1..Len(model.relationships)}

\* The nodes a path of at most n edges of the document leads to from a set.
RECURSIVE Within(_, _)
Within(from, n) ==
    IF n = 0 THEN from
    ELSE LET near == Within(from, n - 1)
         IN  near \cup {e[2] : e \in {d \in DocumentEdges : d[1] \in near}}

PathExists(a, b) == b \in Within({a}, Cardinality(DocumentEdges))

\* C7: in the report of the one document an analyzer has parsed, the record
\* of a relationship from S to T carries the "Circular dependency detected"
\* risk if and only if the relationships of the document make a directed
\* path from T to S.
C7_CircularIffReturnPath ==
    (Returned /\ parses = 1) =>
        \A i \in 1..Len(Report.relationships) :
            LET record == Report.relationships[i]
                rel    == relationships.val[record.id]
            IN  RiskCount(record, <<"C","i","r","c","u","l","a","r"," ","d","e","p","e","n","d","e","n","c","y"," ","d","e","t","e","c","t","e","d">>) > 0
                    <=> PathExists(rel.target, rel.source)

\* A report in which a relationship between two different elements carries
\* the risk although no relationship leads straight back: the return path
\* has two edges or more.
C7_Witness ==
    /\ Returned /\ parses = 1
    /\ \E i \in 1..Len(Report.relationships) :
           LET rel == relationships.val[Report.relationships[i].id]
           IN  /\ rel.source # rel.target
               /\ <<rel.target, rel.source>> \notin DocumentEdges
               /\ RiskCount(Report.relationships[i],
                            <<"C","i","r","c","u","l","a","r"," ","d","e","p","e","n","d","e","n","c","y"," ","d","e","t","e","c","t","e","d">>) = 1

-----------------------------------------------------------------------------
(* C8 *)

\* C8: in the report, an element's complexity score is not negative and is
\* 1.5 for each id in its relationships list, plus 2 for each neighbor,
\* successor or predecessor, in another layer, plus 0.5 for each property
\* (the scores are in hundredths).
C8_ComplexityScore ==
    Returned =>
        \A i \in 1..Len(Report.elements) :
            LET record  == Report.elements[i]
                element == elements.val[record.id]
                cross   == {n \in AllNeighbors(record.id) :
                               elements.val[n].layer # element.layer}
            IN  /\ record.complexity_score >= 0
                /\ record.complexity_score =
                       150 * Len(element.relationships)
                       + 200 * Cardinality(cross)
                       + 50 * Len(element.properties.keys)

\* What the code does: only successors in another layer are counted.
ComplexityScoreOverSuccessors ==
    Returned =>
        \A i \in 1..Len(Report.elements) :
            LET record  == Report.elements[i]
                element == elements.val[record.id]
                cross   == {n \in Successors(record.id) :
                               elements.val[n].layer # element.layer}
            IN  /\ record.complexity_score >= 0
                /\ record.complexity_score =
                       150 * Len(element.relationships)
                       + 200 * Cardinality(cross)
                       + 50 * Len(element.properties.keys)

-----------------------------------------------------------------------------
(* C9 *)

LayerOf(id) == elements.val[id].layer

CrossLayer(r) ==
    LayerOf(relationships.val[r].source) # LayerOf(relationships.val[r].target)

\* C9: in the report, the dependencies of each named layer are the
\* cross-layer relationships whose source is in the layer plus those whose
\* target is in it, and its elements are the elements of that layer.
C9_LayerCounts ==
    Returned =>
        \A layer \in {"business", "application", "technology"} :
            /\ Report.layers[layer].dependencies =
                   Cardinality({r \in StoredRelationshipIds :
                       CrossLayer(r) /\ LayerOf(relationships.val[r].source) = layer})
                   + Cardinality({r \in StoredRelationshipIds :
                       CrossLayer(r) /\ LayerOf(relationships.val[r].target) = layer})
            /\ Report.layers[layer].elements =
                   Cardinality({id \in StoredIds : LayerOf(id) = layer})

\* A report of a document with a same-layer relationship between two
\* elements and two cross-layer relationships that meet in one layer.
C9_Witness ==
    /\ Returned
    /\ \E r \in StoredRelationshipIds :
           /\ ~CrossLayer(r)
           /\ relationships.val[r].source # relationships.val[r].target
    /\ \E layer \in {"business", "application", "technology"} :
           /\ Report.layers[layer].dependencies >= 2
           /\ Report.layers[layer].elements >= 1

-----------------------------------------------------------------------------
(* C10 *)

\* C10: a parse never fails in the classification of an element, an element
\* record with an absent or empty type tag is stored with layer unknown, and
\* every stored element has one of the four layers.
C10_ClassificationTotal ==
    call = "parse" =>
        /\ raised # "AttributeError"
        /\ \A k \in 1..Len(model.elements) :
               model.elements[k].type \in {None, <<>>} =>
                   /\ model.elements[k].id \in StoredIds
                   /\ LayerOf(model.elements[k].id) = "unknown"
        /\ \A id \in StoredIds :
               LayerOf(id) \in {"business", "application", "technology", "unknown"}

-----------------------------------------------------------------------------
(* C11 *)

\* The risk lists of the first n records of a list, one after the other.
RECURSIVE RisksOf(_, _)
RisksOf(records, n) ==
    IF n = 0 THEN <<>> ELSE RisksOf(records, n - 1) \o records[n].risks

\* The report lists the stored elements, then the stored relationships, each in
\* insertion order, and its risks are their risk lists in that order.
RisksInOrder ==
    /\ Len(Report.elements) = Len(elements.keys)
    /\ \A i \in 1..Len(elements.keys) : Report.elements[i].id = elements.keys[i]
    /\ Len(Report.relationships) = Len(relationships.keys)
    /\ \A i \in 1..Len(relationships.keys) :
           Report.relationships[i].id = relationships.keys[i]
    /\ Report.risks =
           RisksOf(Report.elements, Len(Report.elements))
               \o RisksOf(Report.relationships, Len(Report.relationships))

====
